---- MODULE Spec2Model ----
(***************************************************************************)
(* State-machine model of duplicate-finder.py: one DuplicateFinder run    *)
(* (scan, exact grouping, optional similarity grouping, interactive or    *)
(* automatic resolution, deletion, summary).                               *)
(***************************************************************************)
EXTENDS Integers, Sequences, FiniteSets

VARIABLES
    disk,            \* set of files currently present on disk
    content,         \* file -> content id of its bytes (fixed for the run)
    unreadable,      \* files whose bytes cannot be read (open/read raises)
    args,            \* parsed command line (argparse namespace)
    all_images,      \* self.all_images: list of ImageFile (identified by path)
    duplicates,      \* self.duplicates: insertion-ordered dict hash -> list
    similar_groups,  \* self.similar_groups: list of lists
    stats,           \* self.stats
    pc,              \* position of the run
    group_num,       \* interactive mode: number of the group being presented
    all_to_delete,   \* process_duplicates_auto: the accumulated delete list
    confirm,         \* process_duplicates_auto: the answer read (None before)
    to_delete,       \* delete_files: the part of `files` not yet iterated
    log,             \* the deletion lines written to the logger, in order
    console,         \* kind of the last line printed to the console
    summary,         \* the statistics printed by print_summary (None before)
    exit_code,       \* process exit status (StillRunning before the exit)
    dimensions,      \* img._dimensions, as w * h, of the records that have it
    suggested        \* the record select_file_to_keep returned to a direct
                     \* caller (None before any such call)

vars == <<disk, content, unreadable, args, all_images, duplicates,
          similar_groups, stats, pc, group_num, all_to_delete, confirm, to_delete,
          log, console, summary, exit_code, dimensions, suggested>>

None == "None"

\* the value of exit_code while the process has not exited: no exit status
\* is negative
StillRunning == -1

-----------------------------------------------------------------------------
(* Bounds of the model *)

\* largest number of files in the scanned tree
MaxFiles == 3
\* largest number of files whose bytes cannot be read
MaxUnreadable == 1
\* largest number of records of a list handed to find_similar_images alone
MaxRecords == 4

-----------------------------------------------------------------------------
(* Program constants *)

\* number of bits of an average_hash fingerprint (the factor of the threshold)
HashBits == 64
DEFAULT_SIMILARITY_THRESHOLD == 95

\* the status of sys.exit in main's Exception handler
ErrorStatus == 1

\* the status of sys.exit in main's KeyboardInterrupt handler
InterruptStatus == 0

-----------------------------------------------------------------------------
(* The files offered to a run.  A content id stands for one byte string;   *)
(* size, decoded dimensions and fingerprint are functions of the bytes.    *)
(* Content 3 is a byte string that does not decode as an image.            *)

\* the byte strings of the files of a full run
Contents == {1, 2, 3}

\* further byte strings, for the grouping passes alone
MoreContents == {4, 5}

\* os.path.getsize, in bytes
SizeOf(c) ==
    CASE c = 1 -> 51200 [] c = 2 -> 102400 [] c = 3 -> 2048 [] c = 4 -> 102400
      [] OTHER -> 51200

\* Image.size as width * height; (0, 0) when the image cannot be opened
PixelsOf(c) ==
    CASE c = 1 -> 12 [] c = 2 -> 6 [] c = 3 -> 0 [] c = 4 -> 20 [] OTHER -> 12

\* str(imagehash.average_hash(img)): the hex string of the fingerprint, kept
\* as the one-element sequence holding the set of bits that are 1; the empty
\* string (decoding failed) is the empty sequence
PerceptualHashOf(c) ==
    CASE c = 1 -> <<{}>>
      [] c = 2 -> <<{1, 2, 3, 4}>>
      [] c = 3 -> <<>>
      [] c = 4 -> <<{5, 6, 7, 8}>>
      [] OTHER -> <<1..HashBits>>

\* os.path.getmtime of a file
MtimeOf(f) == f

\* len(Path(path).parts) of a file
PathDepthOf(f) == 2 + ((f + 1) % 2)

-----------------------------------------------------------------------------
(* Sequence helpers *)

SeqToSet(s) == {s[i] : i \in 1..Len(s)}

\* the sum of a list of integers
RECURSIVE Sum(_)
Sum(s) == IF s = <<>> THEN 0 ELSE Head(s) + Sum(Tail(s))

\* files of a set as a list, in walk order (increasing file number)
RECURSIVE InOrder(_)
InOrder(S) ==
    IF S = {} THEN <<>>
    ELSE LET f == CHOOSE x \in S : \A y \in S : x <= y
         IN  <<f>> \o InOrder(S \ {f})

-----------------------------------------------------------------------------
(* ImageFile *)

\* ImageFile.size, read at construction
size(img) == SizeOf(content[img])

\* ImageFile.mtime, read at construction
mtime(img) == MtimeOf(img)

\* Image.open(self.path).size as w * h on a disk dsk; (0, 0) when opening
\* raises (the file is gone or does not decode)
ReadDimensions(img, dsk) == IF img \in dsk THEN PixelsOf(content[img]) ELSE 0

\* a dimensions property that opens the file at every access
DimensionsReread(img, dsk) == ReadDimensions(img, dsk)

\* ImageFile.dimensions: read at the first access, self._dimensions afterwards
DimensionsOf(img, dsk) ==
    IF img \in DOMAIN dimensions THEN dimensions[img] ELSE ReadDimensions(img, dsk)

\* the _dimensions of all records after .dimensions was accessed on a set
\* of records
Memoized(imgs, dsk) ==
    [img \in (DOMAIN dimensions) \cup imgs |-> DimensionsOf(img, dsk)]

\* ImageFile.pixels
pixels(img) == DimensionsOf(img, disk)

\* ImageFile.path_depth
path_depth(img) == PathDepthOf(img)

\* a perceptual_hash that stands for a failed decoding by the fingerprint
\* with no bit set
PerceptualHashZero(img) ==
    IF PerceptualHashOf(content[img]) = <<>> THEN <<{}>>
    ELSE PerceptualHashOf(content[img])

\* ImageFile.perceptual_hash: the fingerprint's string, "" when decoding fails
perceptual_hash(img) == PerceptualHashOf(content[img])

\* imagehash.hex_to_hash(phash): the fingerprint of a non-empty string
hex_to_hash(phash) == phash[1]

\* ImageFile.hash: the MD5 digest of the file's bytes (equal bytes, equal
\* digest; distinct bytes, distinct digest)
hash(img) == <<"md5", content[img]>>

\* open(self.path, 'rb') or a read raises
HashRaises(img) == img \in unreadable

\* imagehash's hash1 - hash2: the number of differing bits
HammingDistance(h1, h2) == Cardinality((h1 \ h2) \cup (h2 \ h1))

-----------------------------------------------------------------------------
(* DuplicateFinder.__init__ *)

InitialStats ==
    [total_files |-> 0, total_size |-> 0, duplicate_files |-> 0,
     duplicate_size |-> 0, deleted_files |-> 0, deleted_size |-> 0, errors |-> 0]

-----------------------------------------------------------------------------
(* scan_directory *)

\* a walk that also skips a file of exactly min_size KB
ScanKeepsAbove(f) == SizeOf(content[f]) > args.min_size * 1024

\* the files the walk keeps: size at least min_size KB
ScanKeeps(f) == SizeOf(content[f]) >= args.min_size * 1024

scan_directory == SelectSeq(InOrder(disk), ScanKeeps)

-----------------------------------------------------------------------------
(* find_exact_duplicates *)

\* an append that only looks at the entry added last (grouping runs of
\* neighbours, as itertools.groupby would)
HashMapAppendToLast(hm, k, img) ==
    IF hm /= <<>> /\ hm[Len(hm)].key = k
    THEN [hm EXCEPT ![Len(hm)].imgs = Append(@, img)]
    ELSE Append(hm, [key |-> k, imgs |-> <<img>>])

\* hash_map[file_hash].append(img) on an insertion-ordered dict, kept as a
\* list of entries [key, imgs] in order of first insertion
HashMapAppend(hm, k, img) ==
    IF \E i \in 1..Len(hm) : hm[i].key = k
    THEN [i \in 1..Len(hm) |->
            IF hm[i].key = k THEN [hm[i] EXCEPT !.imgs = Append(@, img)] ELSE hm[i]]
    ELSE Append(hm, [key |-> k, imgs |-> <<img>>])

\* a hash_map that aliases self.duplicates instead of starting empty
StaleHashMap == duplicates

\* hash_map = defaultdict(list)
EmptyHashMap == <<>>

\* a loop whose try block is around the whole loop: the first image whose
\* hash raises ends it
RECURSIVE BuildHashMapAbort(_, _)
BuildHashMapAbort(images, hm) ==
    IF images = <<>> \/ HashRaises(Head(images)) THEN hm
    ELSE BuildHashMapAbort(Tail(images), HashMapAppend(hm, hash(Head(images)), Head(images)))

\* the loop over images: an image whose hash raises is skipped
RECURSIVE BuildHashMap(_, _)
BuildHashMap(images, hm) ==
    IF images = <<>> THEN hm
    ELSE LET img == Head(images)
         IN  IF HashRaises(img)
             THEN BuildHashMap(Tail(images), hm)
             ELSE BuildHashMap(Tail(images), HashMapAppend(hm, hash(img), img))

\* the number of images of the list whose hash raises
HashErrors(images) ==
    Cardinality({i \in 1..Len(images) : HashRaises(images[i])})

\* a filter that keeps every hash that was seen
IsAnyEntry(e) == Len(e.imgs) > 0

\* if len(imgs) > 1
IsDuplicateEntry(e) == Len(e.imgs) > 1

\* {h: imgs for h, imgs in hash_map.items() if len(imgs) > 1}
ExactDuplicates(images) == SelectSeq(BuildHashMap(images, EmptyHashMap), IsDuplicateEntry)

\* for imgs in duplicates.values(): for img in imgs[1:]
DuplicateFiles(dups) == Sum([i \in 1..Len(dups) |-> Len(Tail(dups[i].imgs))])

TotalSize(imgs) == Sum([i \in 1..Len(imgs) |-> size(imgs[i])])

DuplicateSize(dups) == Sum([i \in 1..Len(dups) |-> TotalSize(Tail(dups[i].imgs))])

-----------------------------------------------------------------------------
(* find_similar_images *)

\* a threshold that grows with the similarity percentage
Threshold100Rising(similarity) == similarity * HashBits

\* threshold = (100 - self.args.similarity) / 100 * 64, times 100
Threshold100(similarity) == (100 - similarity) * HashBits

\* a comparison against the threshold rounded up to a whole number of bits
WithinCeiling(d, similarity) == d <= (Threshold100(similarity) + 99) \div 100

\* a comparison that leaves out the distance equal to the threshold
WithinStrict(d, similarity) == 100 * d < Threshold100(similarity)

\* a comparison that takes the percentage itself for the distance bound
WithinPercent(d, similarity) == d <= 100 - similarity

\* distance <= threshold (d is an integer and the threshold a multiple of
\* 1/100 well inside the floats' exact range, so the float comparison is the
\* exact rational one)
WithinThreshold(d, similarity) == 100 * d <= Threshold100(similarity)

\* if phash: hash_map[img] = imagehash.hex_to_hash(phash)
HasPhash(img) == perceptual_hash(img) /= <<>>

\* the keys of a hash_map filled from the end of the list
PhashCandidatesReversed(images) ==
    LET cands == SelectSeq(images, HasPhash)
    IN  [i \in 1..Len(cands) |-> cands[Len(cands) + 1 - i]]

\* the keys of hash_map, in insertion order
PhashCandidates(images) == SelectSeq(images, HasPhash)

\* an inner loop that lacks `if img2 in processed: continue`
AnchorGroupAll(img1, cands, processed, similarity) ==
    LET Joins(img2) ==
            /\ img2 /= img1
            /\ WithinThreshold(
                   HammingDistance(hex_to_hash(perceptual_hash(img1)),
                                   hex_to_hash(perceptual_hash(img2))),
                   similarity)
    IN  <<img1>> \o SelectSeq(cands, Joins)

\* the inner loop for one anchor img1: the group it collects
AnchorGroup(img1, cands, processed, similarity) ==
    LET Joins(img2) ==
            /\ img2 \notin processed \cup {img1}
            /\ WithinThreshold(
                   HammingDistance(hex_to_hash(perceptual_hash(img1)),
                                   hex_to_hash(perceptual_hash(img2))),
                   similarity)
    IN  <<img1>> \o SelectSeq(cands, Joins)

\* the outer loop, from position i of the candidates
RECURSIVE SimilarLoop(_, _, _, _, _)
SimilarLoop(cands, i, processed, similarity, groups) ==
    IF i > Len(cands) THEN groups
    ELSE IF cands[i] \in processed
         THEN SimilarLoop(cands, i + 1, processed, similarity, groups)
         ELSE LET group == AnchorGroup(cands[i], cands, processed, similarity)
              IN  SimilarLoop(cands, i + 1, processed \cup SeqToSet(group), similarity,
                              IF Len(group) > 1 THEN Append(groups, group) ELSE groups)

\* the groups one call appends to self.similar_groups
SimilarGroups(images, similarity) ==
    SimilarLoop(PhashCandidates(images), 1, {}, similarity, <<>>)

-----------------------------------------------------------------------------
(* select_file_to_keep *)

\* the keys of the members of a group, in the group's order
SizeKeys(group) == [i \in 1..Len(group) |-> size(group[i])]

PixelKeys(group) == [i \in 1..Len(group) |-> pixels(group[i])]

MtimeKeys(group) == [i \in 1..Len(group) |-> mtime(group[i])]

DepthKeys(group) == [i \in 1..Len(group) |-> path_depth(group[i])]

\* a max that returns the last member with the largest key
LastMax(group, keys) ==
    LET best == CHOOSE i \in 1..Len(group) :
                    /\ \A j \in 1..Len(group) : keys[j] <= keys[i]
                    /\ \A j \in (i + 1)..Len(group) : keys[j] < keys[i]
    IN  group[best]

\* max(group, key=...): the first member with the largest key
FirstMax(group, keys) ==
    LET best == CHOOSE i \in 1..Len(group) :
                    /\ \A j \in 1..Len(group) : keys[j] <= keys[i]
                    /\ \A j \in 1..(i - 1) : keys[j] < keys[i]
    IN  group[best]

\* min(group, key=...): the first member with the smallest key
FirstMin(group, keys) ==
    LET best == CHOOSE i \in 1..Len(group) :
                    /\ \A j \in 1..Len(group) : keys[j] >= keys[i]
                    /\ \A j \in 1..(i - 1) : keys[j] > keys[i]
    IN  group[best]

KeepStrategies == {"largest", "highest-res", "oldest", "newest", "shortest-path"}

select_file_to_keep(group, strategy) ==
    CASE strategy = "largest"       -> FirstMax(group, SizeKeys(group))
      [] strategy = "highest-res"   -> FirstMax(group, PixelKeys(group))
      [] strategy = "oldest"        -> FirstMin(group, MtimeKeys(group))
      [] strategy = "newest"        -> FirstMax(group, MtimeKeys(group))
      [] strategy = "shortest-path" -> FirstMin(group, DepthKeys(group))
      [] OTHER                      -> FirstMax(group, SizeKeys(group))

\* the _dimensions of all records after select_file_to_keep ran on a group:
\* 'highest-res' accesses .pixels of every member, the others none
SelectMemoized(group, strategy, dsk) ==
    IF strategy = "highest-res" THEN Memoized(SeqToSet(group), dsk) ELSE dimensions

-----------------------------------------------------------------------------
(* The groups in the order both resolution modes walk them: the exact      *)
(* groups (self.duplicates.items()), then self.similar_groups.             *)

ExactGroupLists(dups) == [i \in 1..Len(dups) |-> dups[i].imgs]

\* an order that takes the similarity groups first
SimilarGroupsFirst == similar_groups \o ExactGroupLists(duplicates)

AllGroups == ExactGroupLists(duplicates) \o similar_groups

\* the records of all the groups
AllMembers == UNION {SeqToSet(AllGroups[i]) : i \in 1..Len(AllGroups)}

\* a list that drops the records of the kept record's size instead of the
\* kept record
AllButBySize(group, keep) == SelectSeq(group, LAMBDA img : size(img) /= size(keep))

\* [img for img in group if img != keep]
AllBut(group, keep) == SelectSeq(group, LAMBDA img : img /= keep)

\* a list built with keep_idx = int(choice)
AllButIndexAfter(group, choice) ==
    LET idx == {i \in 1..Len(group) : i /= choice + 1}
    IN  [k \in 1..Cardinality(idx) |->
            group[CHOOSE i \in idx : Cardinality({j \in idx : j < i}) = k - 1]]

\* [img for i, img in enumerate(group) if i != keep_idx], keep_idx = choice - 1
AllButIndex(group, choice) ==
    LET idx == {i \in 1..Len(group) : i /= choice}
    IN  [k \in 1..Cardinality(idx) |->
            group[CHOOSE i \in idx : Cardinality({j \in idx : j < i}) = k - 1]]

\* the loops of process_duplicates_auto that extend all_to_delete
RECURSIVE CollectToDelete(_, _)
CollectToDelete(groups, strategy) ==
    IF groups = <<>> THEN <<>>
    ELSE AllBut(Head(groups), select_file_to_keep(Head(groups), strategy))
            \o CollectToDelete(Tail(groups), strategy)

-----------------------------------------------------------------------------
(* Console input *)

\* what the user may type at "Keep which file?": text that is no number ...
PromptTexts == {"q", "Q", "s", "x"}

\* ... or a string of digits, given by its value
PromptNumbers == 0..(MaxFiles + 1)

\* ... or a string of characters that str.isdigit accepts and int rejects
\* (a superscript or circled digit)
NonDecimalDigits == {"superscript 2"}

\* what the user may type at "Proceed with deletion? [y/N]"
ConfirmInputs == {"y", "Y", "n", "yes", ""}

\* input(...).strip().lower()
Lower(text) == CASE text = "Q" -> "q" [] text = "Y" -> "y" [] OTHER -> text

\* choice.isdigit() and 1 <= int(choice) <= len(group), for a string of
\* decimal digits
ValidIndex(choice, group) == 1 <= choice /\ choice <= Len(group)

-----------------------------------------------------------------------------
(* Initial states: a tree of up to MaxFiles files and a command line *)

ArgSets ==
    [dry_run : BOOLEAN, interactive : BOOLEAN, similar : BOOLEAN,
     similarity : {90, DEFAULT_SIMILARITY_THRESHOLD}, keep : KeepStrategies,
     yes : BOOLEAN, min_size : {0}]

\* one namespace per distinguishable run: --yes is read in automatic mode
\* only, --similarity with --similar only, and --keep changes nothing but
\* the printed suggestion in interactive mode
RunArgs ==
    {a \in ArgSets :
        /\ a.interactive => ~a.yes /\ a.keep = "largest"
        /\ ~a.similar => a.similarity = DEFAULT_SIMILARITY_THRESHOLD}

Init ==
    /\ \E n \in 0..MaxFiles :
          /\ disk = 1..n
          /\ content \in [1..n -> Contents]
          /\ unreadable \in {u \in SUBSET (1..n) : Cardinality(u) <= MaxUnreadable}
    /\ args \in RunArgs
    /\ all_images = <<>>
    /\ duplicates = <<>>
    /\ similar_groups = <<>>
    /\ stats = InitialStats
    /\ pc = "idle"
    /\ group_num = 0
    /\ all_to_delete = <<>>
    /\ confirm = None
    /\ to_delete = <<>>
    /\ log = <<>>
    /\ console = None
    /\ summary = None
    /\ exit_code = StillRunning
    /\ dimensions = <<>>
    /\ suggested = None

-----------------------------------------------------------------------------
(* run *)

\* self.all_images = self.scan_directory()
Scan ==
    /\ pc = "idle"
    /\ all_images' = scan_directory
    /\ stats' = [stats EXCEPT !.total_files = @ + Len(all_images'),
                              !.total_size = @ + TotalSize(all_images')]
    /\ pc' = "scanned"
    /\ UNCHANGED <<dimensions, suggested, confirm, disk, content, unreadable, args, duplicates, similar_groups,
                   group_num, all_to_delete, to_delete, log, console, summary,
                   exit_code>>

\* if not self.all_images: return
NoImages ==
    /\ pc = "scanned"
    /\ all_images = <<>>
    /\ console' = "No image files found!"
    /\ pc' = "done"
    /\ exit_code' = 0
    /\ UNCHANGED <<dimensions, suggested, confirm, disk, content, unreadable, args, all_images, duplicates,
                   similar_groups, stats, group_num, all_to_delete, to_delete, log,
                   summary>>

\* self.find_exact_duplicates(self.all_images)
FindExact ==
    /\ pc = "scanned"
    /\ all_images /= <<>>
    /\ duplicates' = ExactDuplicates(all_images)
    /\ stats' = [stats EXCEPT !.errors = @ + HashErrors(all_images),
                              !.duplicate_files = @ + DuplicateFiles(duplicates'),
                              !.duplicate_size = @ + DuplicateSize(duplicates')]
    /\ pc' = "exact_grouped"
    /\ UNCHANGED <<dimensions, suggested, confirm, disk, content, unreadable, args, all_images, similar_groups,
                   group_num, all_to_delete, to_delete, log, console, summary,
                   exit_code>>

\* if self.args.similar: self.find_similar_images(self.all_images)
FindSimilar ==
    /\ pc \in {"exact_grouped", "exact_regrouped"}
    /\ args.similar
    /\ similar_groups' = similar_groups \o SimilarGroups(all_images, args.similarity)
    /\ pc' = "similar_grouped"
    /\ UNCHANGED <<dimensions, suggested, confirm, disk, content, unreadable, args, all_images, duplicates, stats,
                   group_num, all_to_delete, to_delete, log, console, summary,
                   exit_code>>

\* the run is at "# Process duplicates"
Grouped == (pc = "exact_grouped" /\ ~args.similar) \/ pc = "similar_grouped"

-----------------------------------------------------------------------------
(* process_duplicates_auto *)

\* up to the confirmation prompt (or to delete_files with --yes)
ProcessAuto ==
    /\ Grouped
    /\ ~args.interactive
    /\ IF Len(AllGroups) = 0
       THEN /\ console' = "No duplicates found!"
            /\ pc' = "resolved"
            /\ UNCHANGED <<all_to_delete, to_delete, dimensions>>
       ELSE /\ all_to_delete' = CollectToDelete(AllGroups, args.keep)
            /\ dimensions' = IF args.keep = "highest-res"
                             THEN Memoized(AllMembers, disk) ELSE dimensions
            /\ console' = "About to delete"
            /\ IF all_to_delete' = <<>>
               THEN pc' = "resolved" /\ UNCHANGED to_delete
               ELSE IF args.yes
                    THEN pc' = "deleting" /\ to_delete' = all_to_delete'
                    ELSE pc' = "confirm" /\ UNCHANGED to_delete
    /\ UNCHANGED <<suggested, confirm, disk, content, unreadable, args, all_images, duplicates,
                   similar_groups, stats, group_num, log, summary, exit_code>>

\* a confirmation that cancels on an explicit "n" alone
DeclinedOnlyOnNo(answer) == answer = "n"

\* if confirm != 'y'
Declined(answer) == answer /= "y"

\* confirm = input("Proceed with deletion? [y/N]: ").strip().lower()
Confirm(answer) ==
    /\ pc = "confirm"
    /\ confirm' = Lower(answer)
    /\ IF Declined(confirm')
       THEN /\ console' = "Deletion cancelled by user"
            /\ pc' = "resolved"
            /\ UNCHANGED to_delete
       ELSE /\ to_delete' = all_to_delete
            /\ pc' = "deleting"
            /\ UNCHANGED console
    /\ UNCHANGED <<dimensions, suggested, disk, content, unreadable, args, all_images, duplicates,
                   similar_groups, stats, group_num, all_to_delete, log, summary,
                   exit_code>>

-----------------------------------------------------------------------------
(* process_duplicates_interactive *)

\* display_duplicate_group: prints img.dimensions and img.pixels of every
\* member, which leaves them cached (the suggestion computed next reads
\* nothing new)
Displayed(group, dsk) == Memoized(SeqToSet(group), dsk)

\* up to the first prompt
ProcessInteractive ==
    /\ Grouped
    /\ args.interactive
    /\ IF Len(AllGroups) = 0
       THEN /\ console' = "No duplicates found!"
            /\ pc' = "resolved"
            /\ UNCHANGED <<group_num, dimensions>>
       ELSE /\ dimensions' = Displayed(AllGroups[1], disk)
            /\ console' = "Keep which file?"
            /\ group_num' = 1
            /\ pc' = "prompt"
    /\ UNCHANGED <<suggested, confirm, disk, content, unreadable, args, all_images, duplicates,
                   similar_groups, stats, all_to_delete, to_delete, log, summary,
                   exit_code>>

\* group_num += 1 and the next iteration of the loops (the next group is
\* displayed, on the disk dsk the step leaves), or their end
NextGroup(dsk) ==
    IF group_num < Len(AllGroups)
    THEN /\ group_num' = group_num + 1
         /\ dimensions' = Displayed(AllGroups[group_num + 1], dsk)
         /\ pc' = "prompt"
         /\ console' = "Keep which file?"
    ELSE /\ group_num' = group_num + 1
         /\ pc' = "resolved"
         /\ UNCHANGED <<console, dimensions>>

\* a 'q' that leaves the while loop only (break), as 's' does
QuitAsBreak == NextGroup(disk)

\* logger.info("User quit. Exiting..."); return
Quit ==
    /\ pc' = "resolved"
    /\ console' = "User quit. Exiting..."
    /\ UNCHANGED <<group_num, dimensions>>

\* an answer that is not a string of digits
PromptText(choice) ==
    /\ pc = "prompt"
    /\ CASE Lower(choice) = "q" -> Quit
         [] Lower(choice) = "s" -> NextGroup(disk)
         [] OTHER ->
              /\ console' = "Invalid choice. Try again."
              /\ UNCHANGED <<pc, group_num, dimensions>>
    /\ UNCHANGED <<suggested, confirm, disk, content, unreadable, args, all_images, duplicates,
                   similar_groups, stats, all_to_delete, to_delete, log, summary,
                   exit_code>>

\* an answer that is a string of decimal digits, given by its value
PromptNumber(choice) ==
    /\ pc = "prompt"
    /\ IF ValidIndex(choice, AllGroups[group_num])
       THEN /\ to_delete' = AllButIndex(AllGroups[group_num], choice)
            /\ pc' = "deleting"
            /\ UNCHANGED <<console, group_num>>
       ELSE /\ console' = "Invalid choice. Try again."
            /\ UNCHANGED <<pc, group_num, to_delete>>
    /\ UNCHANGED <<dimensions, suggested, confirm, disk, content, unreadable, args, all_images, duplicates,
                   similar_groups, stats, all_to_delete, log, summary, exit_code>>

\* an answer for which choice.isdigit() holds and int(choice) raises
\* ValueError: nothing in run catches it, main's Exception handler logs
\* "Unexpected error" and calls sys.exit(1)
PromptNonDecimal(choice) ==
    /\ pc = "prompt"
    /\ console' = "Unexpected error"
    /\ exit_code' = ErrorStatus
    /\ pc' = "failed"
    /\ UNCHANGED <<dimensions, suggested, confirm, disk, content, unreadable, args,
                   all_images, duplicates, similar_groups, stats, group_num,
                   all_to_delete, to_delete, log, summary>>

-----------------------------------------------------------------------------
(* delete_files: one iteration of the loop over files *)

\* os.remove(img.path) raises: the file is gone, or the system refuses
RemoveRaises(img, refused) == img \notin disk \/ refused

\* the exception os.remove raises, as the log line shows it
RemoveError(img) == IF img \notin disk THEN "FileNotFoundError" ELSE "PermissionError"

\* a delete_files that lost the dry-run test
RemovesAlways(img) == TRUE

\* if not self.args.dry_run: os.remove(img.path)
Removes(img) == ~args.dry_run

\* a loop body that raises the deleted counters before it calls os.remove
DeleteOneCountFirst(img, refused) ==
    IF Removes(img) /\ RemoveRaises(img, refused)
    THEN /\ stats' = [stats EXCEPT !.deleted_files = @ + 1,
                                   !.deleted_size = @ + size(img),
                                   !.errors = @ + 1]
         /\ log' = Append(log, <<"Error deleting", img, RemoveError(img)>>)
         /\ UNCHANGED disk
    ELSE /\ disk' = IF Removes(img) THEN disk \ {img} ELSE disk
         /\ log' = Append(log, <<IF Removes(img) THEN "Deleted"
                                  ELSE "[DRY RUN] Would delete", img, None>>)
         /\ stats' = [stats EXCEPT !.deleted_files = @ + 1,
                                   !.deleted_size = @ + size(img)]

\* the body of the loop for one img: the try block and its except clause
DeleteOne(img, refused) ==
    IF Removes(img) /\ RemoveRaises(img, refused)
    THEN /\ stats' = [stats EXCEPT !.errors = @ + 1]
         /\ log' = Append(log, <<"Error deleting", img, RemoveError(img)>>)
         /\ UNCHANGED disk
    ELSE /\ disk' = IF Removes(img) THEN disk \ {img} ELSE disk
         /\ log' = Append(log, <<IF Removes(img) THEN "Deleted"
                                  ELSE "[DRY RUN] Would delete", img, None>>)
         /\ stats' = [stats EXCEPT !.deleted_files = @ + 1,
                                   !.deleted_size = @ + size(img)]

\* an except clause that ends the loop
AfterErrorAbort(files) == <<>>

\* the files still to iterate after the except clause ran: it is inside the
\* loop body, so the loop goes on with the next file
AfterError(files) == Tail(files)

DeleteFile(refused) ==
    /\ pc = "deleting"
    /\ to_delete /= <<>>
    /\ DeleteOne(Head(to_delete), refused)
    /\ to_delete' = IF Removes(Head(to_delete)) /\ RemoveRaises(Head(to_delete), refused)
                    THEN AfterError(to_delete)
                    ELSE Tail(to_delete)
    /\ IF to_delete' /= <<>>
       THEN UNCHANGED <<pc, group_num, console, dimensions>>
       ELSE IF args.interactive
            THEN NextGroup(disk')
            ELSE pc' = "resolved" /\ UNCHANGED <<group_num, console, dimensions>>
    /\ UNCHANGED <<suggested, confirm, content, unreadable, args, all_images, duplicates,
                   similar_groups, all_to_delete, summary, exit_code>>

-----------------------------------------------------------------------------
(* print_summary and the end of main *)

PrintSummary ==
    /\ pc = "resolved"
    /\ summary' = stats
    /\ console' = "SUMMARY"
    /\ pc' = "reported"
    /\ UNCHANGED <<dimensions, suggested, confirm, disk, content, unreadable, args, all_images, duplicates,
                   similar_groups, stats, group_num, all_to_delete, to_delete, log,
                   exit_code>>

\* finder.run() returns and main falls off its end
Exit ==
    /\ pc = "reported"
    /\ pc' = "done"
    /\ exit_code' = 0
    /\ UNCHANGED <<dimensions, suggested, confirm, disk, content, unreadable, args, all_images, duplicates,
                   similar_groups, stats, group_num, all_to_delete, to_delete, log,
                   console, summary>>

Next ==
    \/ Scan
    \/ NoImages
    \/ FindExact
    \/ FindSimilar
    \/ ProcessAuto
    \/ \E answer \in ConfirmInputs : Confirm(answer)
    \/ ProcessInteractive
    \/ \E choice \in PromptTexts : PromptText(choice)
    \/ \E choice \in PromptNumbers : PromptNumber(choice)
    \/ \E choice \in NonDecimalDigits : PromptNonDecimal(choice)
    \/ \E refused \in BOOLEAN : DeleteFile(refused)
    \/ PrintSummary
    \/ Exit

Spec == Init /\ [][Next]_vars

\* run is straight-line code: once process_duplicates_* has returned,
\* print_summary runs, and once it has returned, main ends
FairSpec == Spec /\ WF_vars(PrintSummary) /\ WF_vars(Exit)

-----------------------------------------------------------------------------
(* main's handler of KeyboardInterrupt: Ctrl-C while finder.run() is       *)
(* executing.  No except clause of the program catches it before main      *)
(* (they all name Exception), so it ends the run wherever it is raised.    *)

\* the interrupt arrives between two steps, or (mid_remove) inside
\* delete_files right after os.remove returned and before the counters
Interrupt(mid_remove) ==
    /\ pc \notin {"done", "failed"}
    /\ IF mid_remove
       THEN /\ pc = "deleting"
            /\ Removes(Head(to_delete))
            /\ ~RemoveRaises(Head(to_delete), FALSE)
            /\ disk' = disk \ {Head(to_delete)}
       ELSE UNCHANGED disk
    /\ console' = "Interrupted by user. Exiting..."
    /\ exit_code' = InterruptStatus
    /\ pc' = "done"
    /\ UNCHANGED <<dimensions, suggested, confirm, content, unreadable, args,
                   all_images, duplicates, similar_groups, stats, group_num,
                   all_to_delete, to_delete, log, summary>>

NextInterrupt ==
    \/ Next
    \/ \E mid_remove \in BOOLEAN : Interrupt(mid_remove)

SpecInterrupt == Init /\ [][NextInterrupt]_vars

-----------------------------------------------------------------------------
(* The grouping passes on their own: find_exact_duplicates (applied once   *)
(* or twice to the same list) and find_similar_images, over a wider range  *)
(* of byte strings and of --similarity values.                             *)

SimilarityValues == {0, 75, 90, DEFAULT_SIMILARITY_THRESHOLD, 100}

GroupingArgs ==
    [dry_run : {FALSE}, interactive : {FALSE}, similar : {TRUE},
     similarity : SimilarityValues, keep : {"largest"}, yes : {FALSE},
     min_size : {0}]

InitGrouping ==
    /\ \E n \in 1..MaxFiles :
          /\ disk = 1..n
          /\ content \in [1..n -> Contents \cup MoreContents]
          /\ unreadable \in {u \in SUBSET (1..n) : Cardinality(u) <= MaxUnreadable}
    /\ args \in GroupingArgs
    /\ all_images = <<>>
    /\ duplicates = <<>>
    /\ similar_groups = <<>>
    /\ stats = InitialStats
    /\ pc = "idle"
    /\ group_num = 0
    /\ all_to_delete = <<>>
    /\ confirm = None
    /\ to_delete = <<>>
    /\ log = <<>>
    /\ console = None
    /\ summary = None
    /\ exit_code = StillRunning
    /\ dimensions = <<>>
    /\ suggested = None

\* find_exact_duplicates called once more on the same list
FindExactAgain ==
    /\ pc = "exact_grouped"
    /\ duplicates' = ExactDuplicates(all_images)
    /\ stats' = [stats EXCEPT !.errors = @ + HashErrors(all_images),
                              !.duplicate_files = @ + DuplicateFiles(duplicates'),
                              !.duplicate_size = @ + DuplicateSize(duplicates')]
    /\ pc' = "exact_regrouped"
    /\ UNCHANGED <<dimensions, suggested, confirm, disk, content, unreadable, args, all_images,
                   similar_groups, group_num, all_to_delete, to_delete, log, console,
                   summary, exit_code>>

NextGrouping ==
    \/ Scan
    \/ FindExact
    \/ FindExactAgain
    \/ FindSimilar

SpecGrouping == InitGrouping /\ [][NextGrouping]_vars

-----------------------------------------------------------------------------
(* find_similar_images on lists long enough for several groups: up to      *)
(* MaxRecords files, all readable, every --similarity value of the         *)
(* grouping passes.                                                        *)

InitSimilar ==
    /\ \E n \in 2..MaxRecords :
          /\ disk = 1..n
          /\ content \in [1..n -> Contents \cup MoreContents]
    /\ unreadable = {}
    /\ args \in GroupingArgs
    /\ all_images = <<>>
    /\ duplicates = <<>>
    /\ similar_groups = <<>>
    /\ stats = InitialStats
    /\ pc = "idle"
    /\ group_num = 0
    /\ all_to_delete = <<>>
    /\ confirm = None
    /\ to_delete = <<>>
    /\ log = <<>>
    /\ console = None
    /\ summary = None
    /\ exit_code = StillRunning
    /\ dimensions = <<>>
    /\ suggested = None

NextSimilar ==
    \/ Scan
    \/ FindExact
    \/ FindSimilar

SpecSimilar == InitSimilar /\ [][NextSimilar]_vars

-----------------------------------------------------------------------------
(* select_file_to_keep called on its own (it takes the group and reads     *)
(* self.args.keep, which a caller other than parse_arguments may set to    *)
(* any string): a finder holding one group in any stored order, the call,  *)
(* the deletion of a member, and the call again.                           *)

\* a strategy name that is none of the five choices
UnknownStrategy == "smallest"

KeepArgs ==
    [dry_run : {FALSE}, interactive : {FALSE}, similar : {FALSE},
     similarity : {DEFAULT_SIMILARITY_THRESHOLD},
     keep : KeepStrategies \cup {UnknownStrategy}, yes : {TRUE}, min_size : {0}]

\* the lists of at least 2 distinct records of a set of files
GroupLists(files) ==
    {g \in UNION {[1..k -> files] : k \in 2..Cardinality(files)} :
        \A i, j \in 1..Len(g) : i /= j => g[i] /= g[j]}

InitKeep ==
    /\ \E n \in 2..MaxFiles :
          /\ disk = 1..n
          /\ content \in [1..n -> Contents]
          /\ all_images = InOrder(1..n)
          /\ similar_groups \in {<<g>> : g \in GroupLists(1..n)}
    /\ unreadable = {}
    /\ args \in KeepArgs
    /\ duplicates = <<>>
    /\ stats = InitialStats
    /\ pc = "holding"
    /\ group_num = 0
    /\ all_to_delete = <<>>
    /\ confirm = None
    /\ to_delete = <<>>
    /\ log = <<>>
    /\ console = None
    /\ summary = None
    /\ exit_code = StillRunning
    /\ dimensions = <<>>
    /\ suggested = None

\* suggested = self.select_file_to_keep(group)
SelectKeep ==
    /\ pc = "holding"
    /\ suggested' = select_file_to_keep(similar_groups[1], args.keep)
    /\ dimensions' = SelectMemoized(similar_groups[1], args.keep, disk)
    /\ pc' = "selected"
    /\ UNCHANGED <<confirm, disk, content, unreadable, args, all_images, duplicates,
                   similar_groups, stats, group_num, all_to_delete, to_delete, log,
                   console, summary, exit_code>>

\* self.delete_files([img]) for a member of the group
DeleteMember(img, refused) ==
    /\ pc = "selected"
    /\ img \in SeqToSet(similar_groups[1])
    /\ DeleteOne(img, refused)
    /\ pc' = "deleted"
    /\ UNCHANGED <<dimensions, suggested, confirm, content, unreadable, args,
                   all_images, duplicates, similar_groups, group_num, all_to_delete,
                   to_delete, console, summary, exit_code>>

\* the same call once more, on the same group
SelectKeepAgain ==
    /\ pc \in {"selected", "deleted"}
    /\ suggested' = select_file_to_keep(similar_groups[1], args.keep)
    /\ dimensions' = SelectMemoized(similar_groups[1], args.keep, disk)
    /\ pc' = "reselected"
    /\ UNCHANGED <<confirm, disk, content, unreadable, args, all_images, duplicates,
                   similar_groups, stats, group_num, all_to_delete, to_delete, log,
                   console, summary, exit_code>>

NextKeep ==
    \/ SelectKeep
    \/ \E img \in DOMAIN content : \E refused \in BOOLEAN : DeleteMember(img, refused)
    \/ SelectKeepAgain

SpecKeep == InitKeep /\ [][NextKeep]_vars

-----------------------------------------------------------------------------
(* Whole runs with --min-size: the same steps as Spec, from command lines   *)
(* that set a minimum of 50 KB (the size of byte string 1) or of 100 KB     *)
(* (the size of byte string 2).                                            *)

\* values of --min-size, in KB
MinSizes == {50, 100}

MinSizeArgs == {[a EXCEPT !.min_size = m] : a \in RunArgs, m \in MinSizes}

InitMinSize ==
    /\ \E n \in 0..MaxFiles :
          /\ disk = 1..n
          /\ content \in [1..n -> Contents]
          /\ unreadable \in {u \in SUBSET (1..n) : Cardinality(u) <= MaxUnreadable}
    /\ args \in MinSizeArgs
    /\ all_images = <<>>
    /\ duplicates = <<>>
    /\ similar_groups = <<>>
    /\ stats = InitialStats
    /\ pc = "idle"
    /\ group_num = 0
    /\ all_to_delete = <<>>
    /\ confirm = None
    /\ to_delete = <<>>
    /\ log = <<>>
    /\ console = None
    /\ summary = None
    /\ exit_code = StillRunning
    /\ dimensions = <<>>
    /\ suggested = None

SpecMinSize == InitMinSize /\ [][Next]_vars

-----------------------------------------------------------------------------
(* Vocabulary of the properties *)

\* the files on disk when the run started
InitialFiles == DOMAIN content

\* the files handed to delete_files so far, in order
Attempted == [i \in 1..Len(log) |-> log[i][2]]

\* the system failed nothing: every file could be read for hashing and no
\* os.remove was refused (a refusal is logged with its cause)
NoRefusal ==
    /\ unreadable = {}
    /\ \A i \in 1..Len(log) : log[i][3] /= "PermissionError"

\* no os.remove raised at all
NoRemoveError == \A i \in 1..Len(log) : log[i][1] /= "Error deleting"

\* automatic mode, and the deletion was confirmed by --yes or by the answer y
AutoConfirmed == ~args.interactive /\ (args.yes \/ confirm = "y")

\* sum(len(group) - 1) over the exact groups and the similarity groups
ResolvedSurplus == Sum([i \in 1..Len(AllGroups) |-> Len(AllGroups[i]) - 1])

\* the members of a group still on disk
Survivors(group) == SeqToSet(group) \cap disk

-----------------------------------------------------------------------------
(* C1..C5: dry-run, counters and confirmation, over whole runs (Spec) *)

\* C1: with --dry-run no step of a run, in either mode, with or without
\* --similar and for any answers, removes a file: the files on disk are at
\* every point the files the run started with.
C1_DryRunRemovesNothing == args.dry_run => disk = InitialFiles

\* C1 witness: a finished dry-run that went through delete_files for at least
\* two files of an interactive run with similarity grouping.
C1_Witness ==
    /\ args.dry_run /\ args.interactive /\ args.similar
    /\ pc = "done"
    /\ stats.deleted_files >= 2

\* C2: a finished run that really deletes ends with the counters of the
\* dry-run of the same mode, strategy and answers.  The dry-run counts every
\* file handed to delete_files, so the real run would have to end with
\* deleted_files = number of files handed over and deleted_size = their total
\* size (stated for the runs in which the system fails no read and refuses
\* no removal).
C2_RealRunCountsAsDryRun ==
    (pc = "done" /\ ~args.dry_run /\ NoRefusal)
        => /\ stats.deleted_files = Len(Attempted)
           /\ stats.deleted_size = TotalSize(Attempted)

\* C3: automatic mode with confirmation ends with deleted_files equal to the
\* sum of (group size - 1) over all exact and similarity groups (stated for
\* the runs in which the system fails no read and refuses no removal).
C3_DeletedIsSurplus ==
    (pc = "done" /\ AutoConfirmed /\ NoRefusal)
        => stats.deleted_files = ResolvedSurplus

\* C4: after a confirmed automatic run that really deletes and in which the
\* system fails no read and refuses no removal, every exact group and every
\* similarity group has exactly one member left on disk.
C4_OneSurvivorPerGroup ==
    (pc = "done" /\ AutoConfirmed /\ ~args.dry_run /\ NoRefusal)
        => \A i \in 1..Len(AllGroups) : Cardinality(Survivors(AllGroups[i])) = 1

\* C5: in automatic mode without --yes, as long as the answer read is not y
\* (not read yet, or anything else), no file is removed and deleted_files and
\* deleted_size are 0.
C5_NothingWithoutYes ==
    (~args.interactive /\ ~args.yes /\ confirm /= "y")
        => /\ disk = InitialFiles
           /\ stats.deleted_files = 0
           /\ stats.deleted_size = 0

\* C5 witness: a finished real run whose pending delete list was declined
\* with an answer other than n.
C5_Witness ==
    /\ ~args.interactive /\ ~args.yes /\ ~args.dry_run
    /\ pc = "done"
    /\ confirm = "yes"
    /\ all_to_delete /= <<>>

-----------------------------------------------------------------------------
(* C6..C10: the grouping passes (SpecGrouping) *)

ExactGrouped == pc \in {"exact_grouped", "exact_regrouped", "similar_grouped"}

\* the records of the list whose content hash was computed
Hashed == {f \in SeqToSet(all_images) : f \notin unreadable}

\* the permutations of 1..n, each a reordering of a list of n records
Orderings(n) == {p \in [1..n -> 1..n] : {p[i] : i \in 1..n} = 1..n}

Reordered(list, p) == [i \in 1..Len(list) |-> list[p[i]]]

\* a grouping as a set of (key, member set) pairs
GroupSets(dups) == {<<dups[i].key, SeqToSet(dups[i].imgs)>> : i \in 1..Len(dups)}

\* position of a record in a list
IndexOf(list, x) == CHOOSE i \in 1..Len(list) : list[i] = x

\* the members of a list appear in the order they have in another
InOrderOf(members, list) ==
    \A i, j \in 1..Len(members) :
        i < j => IndexOf(list, members[i]) < IndexOf(list, members[j])

\* C6: after find_exact_duplicates every group has at least 2 members, every
\* member was hashed and its content hash is the group's key, no key occurs
\* twice, and two hashed records with equal content hash are in one group
\* (so a hash with a single record has no group).
C6_ExactGroupsByHash ==
    ExactGrouped =>
        /\ \A i \in 1..Len(duplicates) :
              /\ Len(duplicates[i].imgs) >= 2
              /\ \A k \in 1..Len(duplicates[i].imgs) :
                    /\ duplicates[i].imgs[k] \in Hashed
                    /\ hash(duplicates[i].imgs[k]) = duplicates[i].key
        /\ \A i, j \in 1..Len(duplicates) :
              duplicates[i].key = duplicates[j].key => i = j
        /\ \A f, g \in Hashed :
              (f /= g /\ content[f] = content[g])
                  => \E i \in 1..Len(duplicates) :
                        {f, g} \subseteq SeqToSet(duplicates[i].imgs)

\* C6 witness: a list with one group and a record of the same bytes that is
\* outside the group because its hash failed.
C6_Witness ==
    /\ pc = "exact_grouped"
    /\ Len(duplicates) = 1
    /\ \E f \in unreadable \cap SeqToSet(all_images) : hash(f) = duplicates[1].key

\* C7: a second find_exact_duplicates on the same list leaves the mapping of
\* content hash to ordered member list as the first call made it.
C7_ExactGroupingIdempotent ==
    [][(pc = "exact_grouped" /\ pc' = "exact_regrouped") => duplicates' = duplicates]_vars

\* C7 witness: the second call has run on a list with a group of 3 records.
C7_Witness ==
    /\ pc = "exact_regrouped"
    /\ \E i \in 1..Len(duplicates) : Len(duplicates[i].imgs) = 3

\* C8: every reordering of the input list gives the same groups (same keys,
\* same member sets), and the members of each group are in the order in
\* which the input list holds them.
C8_ExactGroupingOrderFree ==
    pc = "exact_grouped" =>
        /\ \A p \in Orderings(Len(all_images)) :
              LET list == Reordered(all_images, p)
                  dups == ExactDuplicates(list)
              IN  /\ GroupSets(dups) = GroupSets(duplicates)
                  /\ \A i \in 1..Len(dups) : InOrderOf(dups[i].imgs, list)
        /\ \A i \in 1..Len(duplicates) : InOrderOf(duplicates[i].imgs, all_images)

\* C8 witness: a group whose two members are not neighbours in the list.
C8_Witness ==
    /\ pc = "exact_grouped"
    /\ \E i \in 1..Len(duplicates) : duplicates[i].imgs = <<1, 3>>

\* the fingerprint of a record of a similarity group
Fingerprint(img) == hex_to_hash(perceptual_hash(img))

\* C9: every similarity group has at least 2 members, its first member is
\* the anchor, and every other member is within T = (100 - S)/100 * 64 bits
\* of the anchor (100 * d <= 64 * (100 - S)).
C9_MembersNearAnchor ==
    \A i \in 1..Len(similar_groups) :
        /\ Len(similar_groups[i]) >= 2
        /\ \A k \in 2..Len(similar_groups[i]) :
              100 * HammingDistance(Fingerprint(similar_groups[i][1]),
                                    Fingerprint(similar_groups[i][k]))
                  <= 64 * (100 - args.similarity)

\* C9 witness: a group with two non-anchor members that are farther than T
\* from each other.
C9_Witness ==
    /\ pc = "similar_grouped"
    /\ \E i \in 1..Len(similar_groups) :
          \E k, m \in 2..Len(similar_groups[i]) :
              100 * HammingDistance(Fingerprint(similar_groups[i][k]),
                                    Fingerprint(similar_groups[i][m]))
                  > 64 * (100 - args.similarity)

\* the similarity values above the one of the run
Higher == {s2 \in SimilarityValues : s2 > args.similarity}

\* C10 as stated: a higher S gives a threshold at least as large, no group
\* of the run shrinks (each is contained in a group at the higher S) and the
\* number of groups does not go down.
C10_RaisingSGrowsGroups ==
    pc = "similar_grouped" =>
        \A s2 \in Higher :
            /\ Threshold100(s2) >= Threshold100(args.similarity)
            /\ Len(SimilarGroups(all_images, s2)) >= Len(similar_groups)
            /\ \A i \in 1..Len(similar_groups) :
                  \E j \in 1..Len(SimilarGroups(all_images, s2)) :
                      SeqToSet(similar_groups[i])
                          \subseteq SeqToSet(SimilarGroups(all_images, s2)[j])

\* C10 as amended: a higher S gives a threshold that is smaller, and the
\* group anchored at the first record with a fingerprint does not grow: if
\* that record anchors a group at the higher S, it anchors the first group of
\* the run and that group contains the one at the higher S.
C10_RaisingSLowersThreshold ==
    pc = "similar_grouped" =>
        \A s2 \in Higher :
            /\ Threshold100(s2) < Threshold100(args.similarity)
            /\ LET cands == PhashCandidates(all_images)
                   g2 == SimilarGroups(all_images, s2)
               IN  (g2 /= <<>> /\ g2[1][1] = cands[1])
                      => /\ similar_groups /= <<>>
                         /\ similar_groups[1][1] = cands[1]
                         /\ SeqToSet(g2[1]) \subseteq SeqToSet(similar_groups[1])

\* C10 witness: a run whose first group has a member that a higher S drops
\* from it, the anchor still anchoring a group there.
C10_Witness ==
    /\ pc = "similar_grouped"
    /\ \E s2 \in Higher :
          LET g2 == SimilarGroups(all_images, s2)
          IN  /\ g2 /= <<>>
              /\ g2[1][1] = similar_groups[1][1]
              /\ SeqToSet(g2[1]) /= SeqToSet(similar_groups[1])

-----------------------------------------------------------------------------
(* C11: the comparison with the threshold (SpecGrouping) *)

\* the first record of the list that has a fingerprint: the first anchor
FirstAnchor == PhashCandidates(all_images)[1]

\* the records with a fingerprint that the exact rational comparison
\* 100 * d <= 64 * (100 - S) puts next to the first anchor
NearFirstAnchor ==
    {g \in SeqToSet(PhashCandidates(all_images)) \ {FirstAnchor} :
        100 * HammingDistance(Fingerprint(FirstAnchor), Fingerprint(g))
            <= 64 * (100 - args.similarity)}

\* C11: two fingerprints are similar iff 100 * d <= 64 * (100 - S), the
\* threshold taken unrounded: the first anchor's group is the anchor with
\* exactly the records within that bound (no group when there is none); at
\* S = 95 a record 4 bits from the first anchor is not in its group and at
\* S = 90 it is.
C11_UnroundedThreshold ==
    (pc = "similar_grouped" /\ PhashCandidates(all_images) /= <<>>) =>
        /\ IF NearFirstAnchor = {}
           THEN \A i \in 1..Len(similar_groups) :
                    FirstAnchor \notin SeqToSet(similar_groups[i])
           ELSE /\ similar_groups /= <<>>
                /\ similar_groups[1][1] = FirstAnchor
                /\ SeqToSet(similar_groups[1]) = {FirstAnchor} \cup NearFirstAnchor
        /\ \A g \in SeqToSet(PhashCandidates(all_images)) :
              HammingDistance(Fingerprint(FirstAnchor), Fingerprint(g)) = 4
                  => /\ args.similarity = 95 =>
                            \A i \in 1..Len(similar_groups) :
                                ~({FirstAnchor, g} \subseteq SeqToSet(similar_groups[i]))
                     /\ args.similarity = 90 =>
                            {FirstAnchor, g} \subseteq SeqToSet(similar_groups[1])

\* C11 witness: at S = 95 (T = 3.2) a list whose records with a fingerprint
\* include one 4 bits from the first anchor, and no group was formed.
C11_Witness ==
    /\ pc = "similar_grouped"
    /\ args.similarity = 95
    /\ PhashCandidates(all_images) /= <<>>
    /\ \E g \in SeqToSet(PhashCandidates(all_images)) :
          HammingDistance(Fingerprint(FirstAnchor), Fingerprint(g)) = 4
    /\ similar_groups = <<>>

-----------------------------------------------------------------------------
(* C12, C13: select_file_to_keep (SpecKeep) *)

\* the quantity a strategy name maximises, from the bytes, the time and the
\* path of a record on disk (a minimum is the maximum of the negation); a
\* name that is none of the five compares sizes
StrategyKey(img, strategy) ==
    CASE strategy = "highest-res"   -> PixelsOf(content[img])
      [] strategy = "oldest"        -> 0 - MtimeOf(img)
      [] strategy = "newest"        -> MtimeOf(img)
      [] strategy = "shortest-path" -> 0 - PathDepthOf(img)
      [] OTHER                      -> SizeOf(content[img])

\* C12: for every group of at least 2 records and every strategy name the
\* call returns the first member, in the group's stored order, that attains
\* the maximum size (largest, and any unknown name), the maximum pixel count
\* (highest-res), the minimum (oldest) or maximum (newest) modification
\* time, or the minimum path depth (shortest-path).
C12_KeepsFirstAttaining ==
    pc = "selected" =>
        LET g == similar_groups[1]
        IN  \E i \in 1..Len(g) :
                /\ suggested = g[i]
                /\ \A j \in 1..Len(g) :
                      StrategyKey(g[j], args.keep) <= StrategyKey(g[i], args.keep)
                /\ \A j \in 1..(i - 1) :
                      StrategyKey(g[j], args.keep) < StrategyKey(g[i], args.keep)

\* C12 witness: an unknown strategy name on a group of 3 whose second and
\* third members are byte-identical and larger than the first: the second
\* is returned.
C12_Witness ==
    /\ pc = "selected"
    /\ args.keep \notin KeepStrategies
    /\ Len(similar_groups[1]) = 3
    /\ content[similar_groups[1][2]] = content[similar_groups[1][3]]
    /\ SizeOf(content[similar_groups[1][1]]) < SizeOf(content[similar_groups[1][2]])
    /\ suggested = similar_groups[1][2]

\* C13: a call of select_file_to_keep changes neither the group nor any
\* other list of records, nor the statistics, nor the files on disk, and a
\* repeated call on the same group with the same strategy returns the
\* record the first call returned.
C13_KeepSelectorPure ==
    [][(pc' \in {"selected", "reselected"} /\ pc' /= pc)
          => /\ UNCHANGED <<similar_groups, duplicates, all_images, stats, disk, log,
                            args>>
             /\ pc' = "reselected" => suggested' = suggested]_vars

\* C13 witness: under highest-res the record returned by the first call was
\* deleted before the second call, which returned it again although another
\* member, still on disk, has pixels.
C13_Witness ==
    /\ pc = "reselected"
    /\ args.keep = "highest-res"
    /\ suggested \notin disk
    /\ \E img \in SeqToSet(similar_groups[1]) \cap disk : PixelsOf(content[img]) > 0

-----------------------------------------------------------------------------
(* C14..C20: resolution, deletion and the end of a run (Spec, FairSpec) *)

\* the step reads the answer q (or Q) at the prompt of a group
QuitStep == \E choice \in PromptTexts : Lower(choice) = "q" /\ PromptText(choice)

\* the user quit at group group_num: the interactive loops were left before
\* their end (a run that presents every group ends with group_num one past
\* the last group)
QuitAt ==
    /\ args.interactive
    /\ pc \in {"resolved", "reported", "done"}
    /\ group_num \in 1..Len(AllGroups)

\* the records of the groups presented before group k
MembersBefore(k) == UNION {SeqToSet(AllGroups[j]) : j \in 1..(k - 1)}

\* C14: quitting at group k passes nothing to deletion and issues no further
\* prompt: the step changes no file, counter or log line; afterwards the
\* only steps are the summary, printed with the counters as they were at the
\* quit, and the exit, which do follow; every file ever handed to
\* delete_files belongs to a group before k, and the files those decisions
\* left on disk stay.
C14_QuitAbandonsRemainingGroups ==
    /\ [][QuitStep => /\ pc' = "resolved"
                      /\ to_delete' = <<>>
                      /\ UNCHANGED <<disk, stats, log, group_num>>]_vars
    /\ [][QuitAt => /\ UNCHANGED <<disk, stats, log, group_num, to_delete>>
                    /\ pc = "resolved" => (pc' = "reported" /\ summary' = stats)
                    /\ pc = "reported" => pc' = "done"
                    /\ pc /= "done"]_vars
    /\ [](QuitAt => /\ to_delete = <<>>
                    /\ \A i \in 1..Len(log) : log[i][2] \in MembersBefore(group_num))
    /\ QuitAt ~> (QuitAt /\ pc = "done" /\ console = "SUMMARY")

\* C14 witness: a finished real run with two groups in which the first
\* group's decision removed a file and the user quit at the second.
C14_Witness ==
    /\ QuitAt
    /\ pc = "done"
    /\ ~args.dry_run
    /\ group_num = 2
    /\ disk /= InitialFiles
    /\ AllGroups[2] /= AllGroups[1]

\* the step appends the line of a failed removal to the log
RemovalFails ==
    /\ Len(log') = Len(log) + 1
    /\ log'[Len(log')][1] = "Error deleting"

\* the run is past the resolution of its groups
Resolved == pc \in {"resolved", "reported", "done"}

\* C15: when the removal of a file of a delete list fails, the files on
\* disk stay as they are (the file is not removed), errors grows by exactly
\* one, deleted_files and deleted_size do not change, and the loop goes on
\* with the rest of the list: the files after it are still to be processed,
\* and a confirmed automatic run ends having handed every file of its list
\* to removal.
C15_FailedRemovalIsCounted ==
    /\ [][RemovalFails =>
             /\ log'[Len(log')][2] = Head(to_delete)
             /\ disk' = disk
             /\ stats'.errors = stats.errors + 1
             /\ stats'.deleted_files = stats.deleted_files
             /\ stats'.deleted_size = stats.deleted_size
             /\ to_delete' = Tail(to_delete)
             /\ to_delete' /= <<>> => pc' = "deleting"]_vars
    /\ []((Resolved /\ AutoConfirmed) => Attempted = all_to_delete)

\* C15 witness: a finished automatic run whose log shows a removal the
\* system refused, with the file still on disk, followed by a removal that
\* succeeded.
C15_Witness ==
    /\ pc = "done"
    /\ ~args.interactive
    /\ \E i, j \in 1..Len(log) :
          /\ i < j
          /\ log[i][1] = "Error deleting"
          /\ log[i][3] = "PermissionError"
          /\ log[i][2] \in disk
          /\ log[j][1] = "Deleted"

\* the state of the run as the specification's state machine names it
RunState ==
    CASE pc = "idle"            -> "Idle"
      [] pc = "scanned"         -> "Scanned"
      [] pc = "exact_grouped"   -> "ExactGrouped"
      [] pc = "similar_grouped" -> "SimilarGrouped"
      [] pc = "reported"        -> "Reported"
      [] pc = "done"            -> "Done"
      [] pc = "failed"          -> "Failed"
      [] OTHER                  -> "Resolving"

\* the order Idle, Scanned, ExactGrouped, [SimilarGrouped], Resolving,
\* Reported, Done
RunOrder ==
    {<<"Idle", "Scanned">>, <<"Scanned", "ExactGrouped">>,
     <<"ExactGrouped", "SimilarGrouped">>, <<"ExactGrouped", "Resolving">>,
     <<"SimilarGrouped", "Resolving">>, <<"Resolving", "Reported">>,
     <<"Reported", "Done">>}

\* C16: every step of a run that changes its state, other than the end by
\* an unhandled exception, follows the order Idle, Scanned, ExactGrouped,
\* optionally SimilarGrouped, Resolving, Reported, Done; in particular a run
\* is Done only after it was Reported (the summary was printed), also when
\* the scan found no image file.
C16_SummaryBeforeDone ==
    [][RunState' \notin {RunState, "Failed"} => <<RunState, RunState'>> \in RunOrder]_vars

\* C17: an interrupt ends the process with status 0 wherever it arrives;
\* nothing happens after it (no group is resolved, no file removed), and no
\* step of a run, the interrupt included, brings a removed file back.
C17_InterruptExitsZero ==
    /\ [][(\E mid_remove \in BOOLEAN : Interrupt(mid_remove))
             => /\ pc' = "done"
                /\ exit_code' = 0
                /\ UNCHANGED <<stats, log, to_delete, group_num>>]_vars
    /\ [][(pc = "done" \/ pc = "failed") => UNCHANGED vars]_vars
    /\ [][disk' \subseteq disk]_vars
    /\ [](console = "Interrupted by user. Exiting..." => (pc = "done" /\ exit_code = 0))

\* C17 witness: a run interrupted inside a delete list, after a file was
\* removed and with files of the list still on disk.
C17_Witness ==
    /\ console = "Interrupted by user. Exiting..."
    /\ disk /= InitialFiles
    /\ to_delete /= <<>>
    /\ SeqToSet(to_delete) \cap disk /= {}

\* the group presented at the prompt: the group_num-th of the exact groups
\* followed by the similarity groups
Presented ==
    IF group_num <= Len(duplicates)
    THEN duplicates[group_num].imgs
    ELSE similar_groups[group_num - Len(duplicates)]

\* a list without its i-th member
Without(group, i) ==
    [k \in 1..(Len(group) - 1) |-> IF k < i THEN group[k] ELSE group[k + 1]]

\* a step that reads a number i in 1..len(group) hands exactly the other
\* members to deletion
IndexKeepsThatMember ==
    \A i \in PromptNumbers :
        (PromptNumber(i) /\ 1 <= i /\ i <= Len(Presented))
            => /\ pc' = "deleting"
               /\ to_delete' = Without(Presented, i)
               /\ Presented[i] \notin SeqToSet(to_delete')
               /\ UNCHANGED <<disk, stats, log, group_num>>

\* a step that reads skip hands nothing to deletion and advances
SkipPassesNothing ==
    \A choice \in PromptTexts :
        (PromptText(choice) /\ choice \in {"s", "S"})
            => /\ group_num' = group_num + 1
               /\ pc' \in {"prompt", "resolved"}
               /\ to_delete' = <<>>
               /\ UNCHANGED <<disk, stats, log>>

\* C18: at the prompt of a group, a number i in 1..len(group) hands exactly
\* the other len(group) - 1 members, in the group's order and never member
\* i, to deletion; skip hands nothing to deletion, changes no file and no
\* counter, and moves to the next group.
C18_IndexKeepsSkipPasses == [][IndexKeepsThatMember /\ SkipPassesNothing]_vars

\* C18 witness: the second member of a group of three was chosen: the first
\* and the third are handed to deletion.
C18_Witness ==
    /\ args.interactive
    /\ pc = "deleting"
    /\ Len(Presented) = 3
    /\ to_delete = <<Presented[1], Presented[3]>>

\* the step reads an answer that is not quit, not skip and not a number in
\* 1..len(group)
InvalidInputStep ==
    \/ \E choice \in PromptTexts :
          PromptText(choice) /\ choice \notin {"q", "Q", "s", "S"}
    \/ \E choice \in PromptNumbers :
          PromptNumber(choice) /\ ~(1 <= choice /\ choice <= Len(Presented))
    \/ \E choice \in NonDecimalDigits : PromptNonDecimal(choice)

\* C19: an invalid answer prompts again for the same group: the run stays
\* at the prompt, and the group number, the files on disk, the statistics
\* and the pending deletions are unchanged.
C19_InvalidInputReprompts ==
    [][InvalidInputStep
          => (pc' = "prompt" /\ UNCHANGED <<group_num, disk, stats, log, to_delete>>)]_vars

\* C20: both modes take the exact groups, in construction order, before the
\* similarity groups, in construction order.  Automatic mode: the delete
\* list is the files to delete of the exact groups followed by those of the
\* similarity groups, and files are handed to removal in that order.
\* Interactive mode: the group numbers are presented one after the other,
\* and what is handed to removal at number k comes from the k-th group of
\* that order.
C20_ExactBeforeSimilar ==
    /\ []((~args.interactive /\ pc \in {"confirm", "deleting", "resolved", "reported",
                                         "done"})
            => /\ all_to_delete =
                      CollectToDelete(ExactGroupLists(duplicates), args.keep)
                          \o CollectToDelete(similar_groups, args.keep)
               /\ Len(Attempted) <= Len(all_to_delete)
               /\ \A i \in 1..Len(Attempted) : Attempted[i] = all_to_delete[i])
    /\ []((args.interactive /\ pc \in {"prompt", "deleting"})
            => /\ group_num \in 1..(Len(duplicates) + Len(similar_groups))
               /\ SeqToSet(to_delete) \subseteq SeqToSet(Presented))
    /\ [][group_num' \in {group_num, group_num + 1}]_vars

\* C20 witness: a finished automatic run with an exact group and a
\* similarity group whose delete list differs from the one that takes the
\* similarity groups first.
C20_Witness ==
    /\ ~args.interactive
    /\ pc = "done"
    /\ duplicates /= <<>>
    /\ similar_groups /= <<>>
    /\ log /= <<>>
    /\ all_to_delete /= CollectToDelete(similar_groups, args.keep)
                            \o CollectToDelete(ExactGroupLists(duplicates), args.keep)

-----------------------------------------------------------------------------
(* C21..C23: the ends of the similarity range and the records without a  *)
(* hash (SpecGrouping)                                                     *)

\* the records of the list that have a fingerprint
WithFingerprint == SeqToSet(PhashCandidates(all_images))

\* C21: at S = 100 (T = 0) the members of a similarity group all have the
\* same fingerprint, bit for bit; at S = 0 (T = 64) a list with at least 2
\* records that have a fingerprint ends with a single group, which holds
\* all of them (in list order) and nothing else.
C21_EndsOfTheRange ==
    pc = "similar_grouped" =>
        /\ args.similarity = 100 =>
              \A i \in 1..Len(similar_groups) :
                  \A k, m \in 1..Len(similar_groups[i]) :
                      Fingerprint(similar_groups[i][k]) = Fingerprint(similar_groups[i][m])
        /\ (args.similarity = 0 /\ Cardinality(WithFingerprint) >= 2) =>
              similar_groups = <<PhashCandidates(all_images)>>

\* C21 witness: at S = 0 a list with two records whose fingerprints differ
\* in all 64 bits and a record without fingerprint; the two are one group.
C21_Witness ==
    /\ pc = "similar_grouped"
    /\ args.similarity = 0
    /\ Len(all_images) = 3
    /\ Len(similar_groups) = 1
    /\ Len(similar_groups[1]) = 2
    /\ HammingDistance(Fingerprint(similar_groups[1][1]),
                       Fingerprint(similar_groups[1][2])) = HashBits

\* the records of the list whose bytes do not decode: perceptual_hash is ""
Undecodable == {f \in SeqToSet(all_images) : PerceptualHashOf(content[f]) = <<>>}

\* C22: a record whose perceptual hash is the empty string is in no
\* similarity group, as anchor or as member (so it is matched with no
\* record, not even with another record without fingerprint or with one
\* whose fingerprint has no bit set), and it is grouped by content hash as
\* any other record: with a second hashed record of the same bytes it is in
\* their exact group.
C22_NoFingerprintNoSimilarGroup ==
    /\ \A i \in 1..Len(similar_groups) :
          SeqToSet(similar_groups[i]) \cap Undecodable = {}
    /\ ExactGrouped =>
          \A f \in Undecodable \cap Hashed : \A g \in Hashed :
              (f /= g /\ content[f] = content[g])
                  => \E i \in 1..Len(duplicates) :
                        {f, g} \subseteq SeqToSet(duplicates[i].imgs)

\* C22 witness: at S = 0 two records of the same undecodable bytes are an
\* exact group, the list has a third record whose fingerprint has no bit
\* set, and there is no similarity group.
C22_Witness ==
    /\ pc = "similar_grouped"
    /\ args.similarity = 0
    /\ similar_groups = <<>>
    /\ \E i \in 1..Len(duplicates) : SeqToSet(duplicates[i].imgs) \subseteq Undecodable
    /\ \E f \in WithFingerprint : Fingerprint(f) = {}

\* the records of the list whose content hash raises
Unhashed == SeqToSet(all_images) \ Hashed

\* C23: a record whose hash raises is in no exact group; one call of
\* find_exact_duplicates adds one error per such record (and a second call,
\* which fails on it again, one more); the other records are grouped as if
\* it were not in the list (two hashed records of equal bytes share a
\* group, wherever the failing record stands); and the record takes part
\* in similarity grouping with the fingerprint it has: it ends in one group
\* with any other record of the same fingerprint.
C23_HashFailureIsCountedAndSkipped ==
    /\ ExactGrouped =>
          /\ \A i \in 1..Len(duplicates) : SeqToSet(duplicates[i].imgs) \cap Unhashed = {}
          /\ \A f, g \in Hashed :
                (f /= g /\ content[f] = content[g])
                    => \E i \in 1..Len(duplicates) :
                          {f, g} \subseteq SeqToSet(duplicates[i].imgs)
    /\ pc = "exact_grouped" => stats.errors = Cardinality(Unhashed)
    /\ pc = "exact_regrouped" => stats.errors = 2 * Cardinality(Unhashed)
    /\ pc = "similar_grouped" =>
          \A f \in Unhashed \ Undecodable : \A g \in WithFingerprint :
              (f /= g /\ Fingerprint(f) = Fingerprint(g))
                  => \E i \in 1..Len(similar_groups) :
                        {f, g} \subseteq SeqToSet(similar_groups[i])

\* C23 witness: the first record of the list could not be hashed, the two
\* after it are an exact group, and the first is the anchor of a similarity
\* group.
C23_Witness ==
    /\ pc = "similar_grouped"
    /\ Len(all_images) = 3
    /\ Unhashed = {all_images[1]}
    /\ Len(duplicates) = 1
    /\ duplicates[1].imgs = <<all_images[2], all_images[3]>>
    /\ similar_groups /= <<>>
    /\ similar_groups[1][1] = all_images[1]

-----------------------------------------------------------------------------
(* C24: --min-size (SpecMinSize) *)

\* the files of the tree smaller than min_size * 1024 bytes
TooSmall == {f \in InitialFiles : SizeOf(content[f]) < args.min_size * 1024}

\* the files of the tree of exactly min_size * 1024 bytes
ExactlyMinSize == {f \in InitialFiles : SizeOf(content[f]) = args.min_size * 1024}

\* C24: a file smaller than min_size * 1024 bytes is at no point of a run
\* in all_images, in a group, in a delete list or handed to delete_files
\* (and so stays on disk); once the scan is over, all_images holds exactly
\* the other files, those of exactly min_size * 1024 bytes included, and
\* total_files and total_size are their number and their total size.
C24_MinSizeExcludes ==
    /\ SeqToSet(all_images) \cap TooSmall = {}
    /\ AllMembers \cap TooSmall = {}
    /\ SeqToSet(all_to_delete) \cap TooSmall = {}
    /\ SeqToSet(to_delete) \cap TooSmall = {}
    /\ SeqToSet(Attempted) \cap TooSmall = {}
    /\ TooSmall \subseteq disk
    /\ pc /= "idle" =>
          /\ SeqToSet(all_images) = InitialFiles \ TooSmall
          /\ ExactlyMinSize \subseteq SeqToSet(all_images)
          /\ stats.total_files = Cardinality(InitialFiles \ TooSmall)
          /\ stats.total_size = TotalSize(InOrder(InitialFiles \ TooSmall))

\* C24 witness: a finished real run with --min-size 50 over a tree with a
\* 2 KB file and two files of exactly 50 KB and equal bytes, one of which
\* was removed.
C24_Witness ==
    /\ pc = "done"
    /\ args.min_size = 50
    /\ ~args.dry_run
    /\ TooSmall /= {}
    /\ Cardinality(ExactlyMinSize) = 2
    /\ Cardinality(ExactlyMinSize \cap disk) = 1

-----------------------------------------------------------------------------
(* C25, C26: records that are in an exact group and in a similarity group  *)
(* (Spec)                                                                  *)

\* a list holds no record twice
NoRepeat(list) == \A i, j \in 1..Len(list) : list[i] = list[j] => i = j

\* os.remove was called on a path that a removal of this run had deleted
RemovedTwice == \E i \in 1..Len(log) : log[i][3] = "FileNotFoundError"

\* C25 as stated: in a run with --similar the automatic delete list holds
\* each record at most once, and in neither mode is os.remove called on a
\* file the run has already removed.
C25_NoRemovalOfRemoved ==
    args.similar => (NoRepeat(all_to_delete) /\ ~RemovedTwice)

\* the records process_duplicates_auto chose to keep, one per group
Kept == {select_file_to_keep(AllGroups[i], args.keep) : i \in 1..Len(AllGroups)}

\* C26 as stated: in automatic mode no record chosen as the survivor of a
\* group is in the delete list of the run.
C26_SurvivorNotListed ==
    (~args.interactive /\ all_to_delete /= <<>>)
        => Kept \cap SeqToSet(all_to_delete) = {}

-----------------------------------------------------------------------------
(* C27, C28: the shape of the similarity groups (SpecSimilar) *)

\* the first members of the similarity groups
GroupAnchors == {similar_groups[i][1] : i \in 1..Len(similar_groups)}

\* C27: after one call of find_similar_images no record is twice in a
\* group, no two groups share a record, and no two groups have the same
\* anchor.
C27_SimilarGroupsDisjoint ==
    /\ \A i \in 1..Len(similar_groups) : NoRepeat(similar_groups[i])
    /\ \A i, j \in 1..Len(similar_groups) :
          i /= j =>
              /\ SeqToSet(similar_groups[i]) \cap SeqToSet(similar_groups[j]) = {}
              /\ similar_groups[i][1] /= similar_groups[j][1]

\* C27 witness: two groups, the second of which has a member within T of
\* the first one's member
C27_Witness ==
    /\ pc = "similar_grouped"
    /\ Len(similar_groups) = 2
    /\ \E f \in SeqToSet(similar_groups[1]) : \E g \in SeqToSet(similar_groups[2]) :
          100 * HammingDistance(Fingerprint(f), Fingerprint(g))
              <= 64 * (100 - args.similarity)

\* two records with a fingerprint are within T = (100 - S)/100 * 64 bits
Near(f, g) ==
    100 * HammingDistance(Fingerprint(f), Fingerprint(g)) <= 64 * (100 - args.similarity)

\* the records with a fingerprint that are in no similarity group: each of
\* them went through the outer loop as an anchor and collected nobody
Ungrouped ==
    WithFingerprint \ UNION {SeqToSet(similar_groups[i]) : i \in 1..Len(similar_groups)}

\* C28: after find_similar_images a record with a fingerprint that is in no
\* group is farther than T from the anchor of every group and from every
\* other such record; and a member of a group that is not its anchor is
\* within T of the anchor, and no anchor that stands earlier in the list
\* (of a group, or one that collected nobody) is within T of it.
C28_GreedyByEarliestAnchor ==
    pc = "similar_grouped" =>
        /\ \A u \in Ungrouped :
              /\ \A a \in GroupAnchors : ~Near(u, a)
              /\ \A v \in Ungrouped \ {u} : ~Near(u, v)
        /\ \A i \in 1..Len(similar_groups) : \A k \in 2..Len(similar_groups[i]) :
              /\ Near(similar_groups[i][1], similar_groups[i][k])
              /\ \A a \in GroupAnchors \cup Ungrouped :
                    Near(a, similar_groups[i][k])
                        => IndexOf(all_images, similar_groups[i][1])
                               <= IndexOf(all_images, a)

\* C28 witness: two groups, and a member of the first that is within T of
\* the anchor of the second as well.
C28_Witness ==
    /\ pc = "similar_grouped"
    /\ Len(similar_groups) = 2
    /\ \E k \in 2..Len(similar_groups[1]) :
          Near(similar_groups[2][1], similar_groups[1][k])

-----------------------------------------------------------------------------
(* C29, C30: the counters of delete_files (Spec) *)

\* the records whose os.remove raised, in order
FailedRemovals ==
    LET Failed(i) == log[i][1] = "Error deleting"
    IN  [k \in 1..Cardinality({i \in 1..Len(log) : Failed(i)}) |->
            log[CHOOSE i \in 1..Len(log) :
                    Failed(i) /\ Cardinality({j \in 1..(i - 1) : Failed(j)}) = k - 1][2]]

\* the records delete_files counted as deleted, in order
CountedDeleted ==
    LET Counted(i) == log[i][1] /= "Error deleting"
    IN  [k \in 1..Cardinality({i \in 1..Len(log) : Counted(i)}) |->
            log[CHOOSE i \in 1..Len(log) :
                    Counted(i) /\ Cardinality({j \in 1..(i - 1) : Counted(j)}) = k - 1][2]]

\* the errors counted before any deletion: one per record whose hash raised
\* in find_exact_duplicates
ErrorsOfGrouping == IF pc \in {"idle", "scanned"} THEN 0 ELSE HashErrors(all_images)

\* one iteration of delete_files raises exactly one of the two counters
CountsOnce ==
    \/ /\ stats'.deleted_files = stats.deleted_files + 1
       /\ stats'.deleted_size = stats.deleted_size + size(Head(to_delete))
       /\ stats'.errors = stats.errors
    \/ /\ stats'.errors = stats.errors + 1
       /\ stats'.deleted_files = stats.deleted_files
       /\ stats'.deleted_size = stats.deleted_size

\* the counters account for every record handed to delete_files so far
CountersAddUp ==
    /\ stats.deleted_files = Len(CountedDeleted)
    /\ stats.errors - ErrorsOfGrouping = Len(FailedRemovals)
    /\ stats.deleted_files + (stats.errors - ErrorsOfGrouping) = Len(Attempted)
    /\ stats.deleted_size = TotalSize(CountedDeleted)
    /\ (Resolved /\ AutoConfirmed /\ all_to_delete /= <<>>) => Attempted = all_to_delete

\* C29: every iteration of delete_files adds one to deleted_files (and the
\* record's size to deleted_size) or one to errors, never both and never
\* neither; at every point deleted_files plus the deletion errors is the
\* number of records handed to delete_files so far (the whole list, once a
\* confirmed automatic run is past it) and deleted_size is the total size
\* of the records counted in deleted_files.
C29_EveryAttemptCountedOnce ==
    /\ [][(\E refused \in BOOLEAN : DeleteFile(refused)) => CountsOnce]_vars
    /\ []CountersAddUp

\* C29 witness: a finished real run in which delete_files removed a file
\* and failed on another.
C29_Witness ==
    /\ pc = "done"
    /\ ~args.dry_run
    /\ Len(CountedDeleted) >= 1
    /\ Len(FailedRemovals) >= 1

\* the sum over the exact groups of group size - 1
ExactSurplus == Sum([i \in 1..Len(duplicates) |-> Len(duplicates[i].imgs) - 1])

\* C30: after the one find_exact_duplicates call of a run duplicate_files is
\* the sum over the exact groups of group size - 1; and the summary of an
\* automatic run without --similar whose deletion was confirmed and in which
\* no os.remove raised reports deleted_files equal to duplicate_files, equal
\* to that sum, for every keep strategy.
C30_DeletedEqualsDuplicates ==
    /\ pc = "exact_grouped" => stats.duplicate_files = ExactSurplus
    /\ (console = "SUMMARY" /\ ~args.similar /\ AutoConfirmed /\ NoRemoveError)
          => /\ summary.duplicate_files = ExactSurplus
             /\ summary.deleted_files = summary.duplicate_files

\* C30 witness: a finished real run with --keep newest, confirmed by the
\* answer y, that removed two of the three members of an exact group.
C30_Witness ==
    /\ pc = "done"
    /\ console = "SUMMARY"
    /\ ~args.similar /\ ~args.dry_run /\ ~args.interactive
    /\ args.keep = "newest"
    /\ confirm = "y"
    /\ NoRemoveError
    /\ summary.deleted_files = 2
    /\ disk = {3}

====
